---- MODULE Spec2Model ----
(***************************************************************************)
(* The conversation orchestrator of run/animation/agent: the LangGraph     *)
(* workflow of animation_graph.py (analyze_prompt, analyze_modification,   *)
(* generate_script, render_animation, router) over the file-backed scene   *)
(* store of scene_manager.py and the script parser / synthesizer of        *)
(* script_parser.py.                                                       *)
(*                                                                         *)
(* A script is a sequence of lines; a line is a record [k, a] where k is   *)
(* the statement the line holds and a its argument (an object name, a      *)
(* primitive type, a variable name).  "term in script" of the source is    *)
(* InScript(term, script).  uuid4() is a counter: every call returns a     *)
(* value never returned before.                                            *)
(*                                                                         *)
(* Spec: the turns of run_animation_generation.  StoreSpec: the scene      *)
(* store and generate_blender_script called directly.  SharedStoreSpec:    *)
(* two SceneManager instances on one storage directory.  FunctionSpec: the *)
(* validator, the synthesizer and the scene modifications applied to       *)
(* arguments drawn in the initial state.  UploadSpec: the requests of the  *)
(* animator service that upload a rendered file with GCSUploader.          *)
(***************************************************************************)
EXTENDS Integers, Sequences, FiniteSets, TLC

\* ------------------------------------------------------------------ bounds
MaxTurns == 2
MaxIds == 6
MaxStoreCalls == 3
MaxObjects == 3
MaxCalls == 3
MaxClock == 3
MaxUploads == 2

Threads == {"t1", "t2"}
Prompts == {"hello", "paint the cube blue", "add a sphere"}

\* ------------------------------------------------------------ script lines
L(k, a) == [k |-> k, a |-> a]

\* a primitive-creation call bpy.ops.mesh.primitive_<type>_add(...): size is
\* the size (cube, plane) or radius (sphere, cylinder) argument as written
\* ("none": not written), location the first coordinate of the location
\* argument (<< >>: not written)
Prim(type, size, location) ==
    [k |-> "primitive_add", a |-> type, size |-> size, location |-> location]

\* the substrings of interest an interpolated object name contributes
NameTerms(name) == IF name = "subprocess" THEN {"subprocess"} ELSE {}

LineContains(line, term) == line.k = term \/ term \in NameTerms(line.a)

InScript(term, script) == \E i \in 1..Len(script) : LineContains(script[i], term)

\* ---------------------------------------------------------- scene records
NoId == 0

NoScene == [id |-> NoId, objects |-> << >>, derivedFrom |-> NoId, glbUrl |-> ""]

\* Python truthiness of a scene dict / None / {}
Truthy(scene) == scene.id # NoId

\* an object of a scene: material is the pair color, roughness ("none": the
\* key is absent), position the first coordinate of the location, size the
\* size or radius of its properties ("none": the object has no properties)
Obj(id, name, type, color) ==
    [id |-> id, name |-> name, type |-> type, color |-> color,
     roughness |-> "none", position |-> 0, size |-> "none"]

\* ------------------------------------------------ scene_manager.py: store
\* one scene file per id: absent, holding a record, or cut short by a failed
\* write (json.load then raises JSONDecodeError)
NoFile == [st |-> "absent", rec |-> NoScene]

CutFile == [st |-> "truncated", rec |-> NoScene]

WriteOutcomes == {"ok", "open_failed", "truncated"}

save_scene_state(files, scene, w) ==
    CASE w = "ok"          -> [files EXCEPT ![scene.id] = [st |-> "ok", rec |-> scene]]
      [] w = "open_failed" -> files
      [] w = "truncated"   -> [files EXCEPT ![scene.id] = CutFile]

get_scene_state(files, scene_id) ==
    IF scene_id \in DOMAIN files /\ files[scene_id].st = "ok"
    THEN files[scene_id].rec
    ELSE NoScene

NoThread == [known |-> FALSE, currentSceneId |-> NoId, sceneHistory |-> << >>]

\* thread_mappings.json: absent, holding the mapping, or cut short
NoMappingFile == [st |-> "absent", map |-> [t \in Threads |-> NoThread]]

\* _load_thread_scenes: the mapping in the file, {} when there is no file or
\* it does not parse
load_thread_scenes(file) ==
    IF file.st = "ok" THEN file.map ELSE [t \in Threads |-> NoThread]

\* _save_thread_scenes: w is the outcome of the write (IOError is swallowed)
save_thread_scenes(file, ts, w) ==
    CASE w = "ok"          -> [st |-> "ok", map |-> ts]
      [] w = "open_failed" -> file
      [] w = "truncated"   -> [NoMappingFile EXCEPT !.st = "truncated"]

get_current_scene_for_thread(ts, files, t) ==
    IF ~ts[t].known THEN NoScene
    ELSE IF ts[t].currentSceneId = NoId THEN NoScene
    ELSE get_scene_state(files, ts[t].currentSceneId)

RECURSIVE LoadAll(_, _)
LoadAll(files, ids) ==
    IF ids = << >> THEN << >>
    ELSE LET s == get_scene_state(files, Head(ids))
         IN  (IF Truthy(s) THEN <<s>> ELSE << >>) \o LoadAll(files, Tail(ids))

get_thread_scene_history(ts, files, t) ==
    IF ~ts[t].known THEN << >> ELSE LoadAll(files, ts[t].sceneHistory)

\* ------------------------------------------------ script_parser.py: parser
PrimTypes == <<"sphere", "cube", "cylinder", "plane">>

\* the primitive type _extract_objects gives the assignment at line i: the
\* first type, in the order of primitive_patterns, with a creation call
\* anywhere before the assignment ("" when there is none)
RECURSIVE FirstPrimType(_, _, _)
FirstPrimType(script, i, n) ==
    IF n > Len(PrimTypes) THEN ""
    ELSE IF \E j \in 1..(i - 1) :
                script[j].k = "primitive_add" /\ script[j].a = PrimTypes[n]
         THEN PrimTypes[n]
         ELSE FirstPrimType(script, i, n + 1)

\* prim_match[-1]: the last call of that type before the assignment
LastCall(script, i, type) ==
    CHOOSE j \in 1..(i - 1) :
        /\ script[j].k = "primitive_add" /\ script[j].a = type
        /\ \A m \in (j + 1)..(i - 1) :
               ~(script[m].k = "primitive_add" /\ script[m].a = type)

\* the value used when the call's size / radius group is empty
DefaultSize(type) == IF type \in {"sphere", "cylinder"} THEN "1.0" ELSE "2.0"

\* obj_props of the assignment at line i: the size or radius written in the
\* call, else the default
PrimSize(script, i) ==
    LET type == FirstPrimType(script, i, 1)
        call == script[LastCall(script, i, type)]
    IN  IF call.size # "none" THEN call.size ELSE DefaultSize(type)

\* the material colour _extract_material finds after the assignment
MaterialAfter(script, i) ==
    IF \E j \in (i + 1)..Len(script) : script[j].k = "material"
    THEN script[CHOOSE j \in (i + 1)..Len(script) :
                    /\ script[j].k = "material"
                    /\ \A m \in (i + 1)..(j - 1) : script[m].k # "material"].a
    ELSE "none"

\* the roughness _extract_material finds: the first Roughness assignment in
\* the rest of the script
RoughnessAfter(script, i) ==
    IF \E j \in (i + 1)..Len(script) : script[j].k = "roughness"
    THEN script[CHOOSE j \in (i + 1)..Len(script) :
                    /\ script[j].k = "roughness"
                    /\ \A m \in (i + 1)..(j - 1) : script[m].k # "roughness"].a
    ELSE "none"

\* the location group of primitive_patterns never takes part in a match (the
\* greedy [^)]* before it runs to the first closing parenthesis), so the
\* position is the default
RECURSIVE extract_objects(_, _, _)
extract_objects(script, i, base) ==
    IF i > Len(script) THEN << >>
    ELSE IF script[i].k = "active_object" /\ FirstPrimType(script, i, 1) # ""
         THEN <<[Obj(base + 1, script[i].a, FirstPrimType(script, i, 1),
                     MaterialAfter(script, i))
                 EXCEPT !.roughness = RoughnessAfter(script, i),
                        !.size = PrimSize(script, i)]>>
              \o extract_objects(script, i + 1, base + 1)
         ELSE extract_objects(script, i + 1, base)

\* re.finditer(camera_pattern, ...) compiles the pattern first.  The pattern
\* holds "[^]*?", which Python's re reads as an unterminated character class
\* up to the next "]": the compile raises re.error ("unbalanced parenthesis
\* at position 116") for every script.
camera_pattern_compiles == FALSE

\* ScriptParser.parse: the objects found, or the exception of _extract_cameras
parse(script, base) ==
    IF camera_pattern_compiles
    THEN [raised |-> FALSE,
          scene |-> [id |-> base + Len(extract_objects(script, 1, base)) + 1,
                     objects |-> extract_objects(script, 1, base),
                     derivedFrom |-> NoId, glbUrl |-> ""]]
    ELSE [raised |-> TRUE, scene |-> NoScene]

\* _preprocess_script uses re, which scene_manager.py never imports: the
\* NameError is caught and the original script returned
preprocess_script(script) == script

\* --------------------------------- scene_manager.py: recording an extraction
\* (variant: the pointer moves, the history is not appended to)
RecordThread_NoAppend(ts, t, scene_id, dedup) ==
    [ts EXCEPT ![t] = [known |-> TRUE, currentSceneId |-> scene_id,
                       sceneHistory |-> ts[t].sceneHistory]]

\* the thread-mapping update: create the record, append to the history
\* (dedup: only if the id is not in it), move the pointer
RecordThread(ts, t, scene_id, dedup) ==
    LET cur  == IF ts[t].known THEN ts[t] ELSE [NoThread EXCEPT !.known = TRUE]
        hist == IF dedup /\ \E i \in 1..Len(cur.sceneHistory) : cur.sceneHistory[i] = scene_id
                THEN cur.sceneHistory
                ELSE Append(cur.sceneHistory, scene_id)
    IN  [ts EXCEPT ![t] = [known |-> TRUE, currentSceneId |-> scene_id,
                           sceneHistory |-> hist]]

\* the result of extract_scene_from_script: the store afterwards and the
\* scene returned; w is the outcome of the scene-file write
extract_scene_from_script(ts, files, uuid, script, t, w) ==
    LET p == parse(preprocess_script(script), uuid)
    IN  IF ~p.raised
        THEN LET prev  == IF ts[t].known THEN ts[t].currentSceneId ELSE NoId
                 scene == [p.scene EXCEPT !.derivedFrom = prev]
             IN  [ts    |-> RecordThread(ts, t, scene.id, TRUE),
                  files |-> save_scene_state(files, scene, w),
                  uuid  |-> scene.id,
                  scene |-> scene]
        ELSE LET fallback_scene == [id |-> uuid + 1, objects |-> << >>,
                                    derivedFrom |-> NoId, glbUrl |-> ""]
             IN  [ts    |-> RecordThread(ts, t, fallback_scene.id, FALSE),
                  files |-> save_scene_state(files, fallback_scene, w),
                  uuid  |-> uuid + 1,
                  scene |-> fallback_scene]

\* update_scene_with_signed_url: load, set glbUrl, save again (no file: no-op)
update_scene_with_signed_url(files, scene_id, url, w) ==
    LET s == get_scene_state(files, scene_id)
    IN  IF Truthy(s)
        THEN save_scene_state(files, [s EXCEPT !.glbUrl = url], w)
        ELSE files

\* ------------------------------------- scene_manager.py: modifying a scene
\* "Ensure all new objects have IDs": uuid4() for each object without one
RECURSIVE AssignIds(_, _)
AssignIds(objects, uuid) ==
    IF objects = << >> THEN << >>
    ELSE IF Head(objects).id = NoId
         THEN <<[Head(objects) EXCEPT !.id = uuid + 1]>> \o AssignIds(Tail(objects), uuid + 1)
         ELSE <<Head(objects)>> \o AssignIds(Tail(objects), uuid)

MissingIds(objects) == Cardinality({i \in 1..Len(objects) : objects[i].id = NoId})

NoInstruction == [object_changes |-> << >>, add_objects |-> << >>,
                  remove_object_ids |-> {}]

\* the fields _apply_object_changes writes
changeable_keys == {"position", "rotation", "scale", "material", "properties"}

\* a material value: the keys a dict names ("none": the key is not named)
Mat(color, roughness) == [color |-> color, roughness |-> roughness]

\* (variant: a field that is a dict is replaced as a whole)
ApplyChange_ReplacesDicts(obj, key, val) ==
    IF key \notin changeable_keys THEN obj
    ELSE IF key = "material"
    THEN [obj EXCEPT !.color = val.color, !.roughness = val.roughness]
    ELSE IF key = "position" THEN [obj EXCEPT !.position = val]
    ELSE IF key = "properties" THEN [obj EXCEPT !.size = val]
    ELSE obj

\* one item of an object's change dict: a field outside changeable_keys is
\* left alone; material and properties (old and new value are dicts) are
\* merged key by key; position (a list) is replaced
ApplyChange(obj, key, val) ==
    IF key \notin changeable_keys THEN obj
    ELSE IF key = "material"
    THEN [obj EXCEPT !.color = IF val.color # "none" THEN val.color ELSE @,
                     !.roughness = IF val.roughness # "none" THEN val.roughness ELSE @]
    ELSE IF key = "position" THEN [obj EXCEPT !.position = val]
    ELSE IF key = "properties"
    THEN [obj EXCEPT !.size = IF val # "none" THEN val ELSE @]
    ELSE obj

\* object_changes is the sequence of the items [id, key, val] of the nested
\* dict id -> field -> value, in iteration order
RECURSIVE apply_object_changes(_, _)
apply_object_changes(objects, changes) ==
    IF changes = << >> THEN objects
    ELSE LET c == Head(changes)
             hit == {i \in 1..Len(objects) : objects[i].id = c.id}
             first == IF hit = {} THEN 0
                      ELSE CHOOSE i \in hit : \A j \in hit : i <= j
             objs == IF first = 0 THEN objects
                     ELSE [objects EXCEPT ![first] = ApplyChange(@, c.key, c.val)]
         IN  apply_object_changes(objs, Tail(changes))

RECURSIVE remove_objects(_, _)
remove_objects(objects, object_ids) ==
    IF objects = << >> THEN << >>
    ELSE (IF Head(objects).id \in object_ids THEN << >> ELSE <<Head(objects)>>)
         \o remove_objects(Tail(objects), object_ids)

\* the properties _add_objects gives an object that has none
AddedSize(type) ==
    CASE type \in {"sphere", "cylinder"} -> "1.0"
      [] type = "cube"                   -> "2.0"
      [] type = "plane"                  -> "5.0"
      [] OTHER                           -> "none"

WithProperties(new_objects) ==
    [i \in 1..Len(new_objects) |->
        IF new_objects[i].size = "none"
        THEN [new_objects[i] EXCEPT !.size = AddedSize(new_objects[i].type)]
        ELSE new_objects[i]]

\* (variant: the new objects are put in front)
add_objects_Prepends(objects, new_objects) == WithProperties(new_objects) \o objects

add_objects(objects, new_objects) == objects \o WithProperties(new_objects)

\* ---------------------------------------- script_parser.py: synthesizer
VarName(name) ==
    CASE name = "New Sphere"   -> "new_sphere"
      [] name = "New Cube"     -> "new_cube"
      [] name = "New Cylinder" -> "new_cylinder"
      [] name = "New Plane"    -> "new_plane"
      [] name = "New Planet"   -> "new_planet"
      [] OTHER                 -> name

ScriptHeader ==
    <<L("import bpy", ""), L("import sys", ""), L("output_path = sys.argv", ""),
      L("clear", ""), L("frame", ""), L("world", "")>>

ScriptFooter ==
    <<L("bpy.ops.export_scene.gltf(", ""), L("filepath=output_path", ""),
      L("export_format='GLB'", "")>>

RECURSIVE CameraLightBlocks(_)
CameraLightBlocks(objects) ==
    IF objects = << >> THEN << >>
    ELSE LET o == Head(objects)
         IN  (CASE o.type = "camera" ->
                     <<L("camera_data", o.name), L("camera_object", o.name)>>
                [] o.type = "light" ->
                     <<L("comment", o.name), L("light_data", VarName(o.name)),
                       L("light_object", VarName(o.name))>>
                [] OTHER -> << >>)
             \o CameraLightBlocks(Tail(objects))

RECURSIVE ObjectBlocks(_)
ObjectBlocks(objects) ==
    IF objects = << >> THEN << >>
    ELSE LET o == Head(objects)
         IN  (IF o.type \in {"camera", "light"} THEN << >>
              ELSE (IF \E n \in 1..Len(PrimTypes) : PrimTypes[n] = o.type
                    THEN <<L("comment", o.name),
                           Prim(o.type,
                                IF o.size = "none" THEN DefaultSize(o.type) ELSE o.size,
                                <<o.position>>),
                           L("active_object", VarName(o.name))>>
                    ELSE << >>)
                   \o (IF o.color # "none"
                       THEN <<L("comment", o.name), L("material", o.color)>>
                            \o (IF o.roughness # "none"
                                THEN <<L("roughness", o.roughness)>> ELSE << >>)
                            \o <<L("assign_material", VarName(o.name))>>
                       ELSE << >>))
             \o ObjectBlocks(Tail(objects))

generate_script_from_scene_state(scene) ==
    ScriptHeader \o CameraLightBlocks(scene.objects)
                 \o ObjectBlocks(scene.objects) \o ScriptFooter

\* (variant: the copy starts without the objects of the current scene)
modified_scene_DropsObjects(current_scene, uuid, instr) ==
    [current_scene EXCEPT !.id = uuid + 1, !.derivedFrom = current_scene.id,
                          !.objects = AssignIds(instr.add_objects, uuid + 1)]

\* the copy of the current scene generate_script_with_modifications builds:
\* a new id, derivedFrom the current scene, the changes, then the removals,
\* then the additions (an added object without id gets one)
modified_scene(current_scene, uuid, instr) ==
    LET o1 == IF instr.object_changes # << >>
              THEN apply_object_changes(current_scene.objects, instr.object_changes)
              ELSE current_scene.objects
        o2 == IF instr.remove_object_ids # {}
              THEN remove_objects(o1, instr.remove_object_ids)
              ELSE o1
        o3 == IF instr.add_objects # << >>
              THEN add_objects(o2, AssignIds(instr.add_objects, uuid + 1))
              ELSE o2
    IN  [current_scene EXCEPT !.id = uuid + 1, !.derivedFrom = current_scene.id,
                              !.objects = o3]

\* generate_script_with_modifications: << >> when the thread has no loadable
\* current scene; the modified scene is synthesized, never saved (an exception
\* in the body also gives << >>: none of the instructions drawn here raises)
generate_script_with_modifications(ts, files, uuid, t, instr) ==
    LET current_scene == get_current_scene_for_thread(ts, files, t)
    IN  IF ~Truthy(current_scene) THEN << >>
        ELSE generate_script_from_scene_state(modified_scene(current_scene, uuid, instr))

\* ------------------------------- animation_graph.py: BlenderScriptGenerator
forbidden_terms == <<"subprocess", "os.system", "eval(", "exec(">>

required_components ==
    <<"import bpy", "bpy.ops.export_scene.gltf(", "filepath=output_path",
      "export_format='GLB'">>

\* _fix_common_script_issues: rewrites of known bad statements
FixLine(line) ==
    CASE line.k = "objects.new(3 args)"  -> L("objects.new(2 args)", line.a)
      [] line.k = "obj.rotation = ("     -> L("obj.rotation_euler = (", line.a)
      [] line.k = "scene.objects.link("  -> L("scene.collection.objects.link(", line.a)
      [] OTHER                           -> line

fix_common_script_issues(script) == [i \in 1..Len(script) |-> FixLine(script[i])]

\* _validate_script_requirements: "" when the script passes, else the message
validate_script_requirements(script) ==
    IF \E n \in 1..Len(forbidden_terms) : InScript(forbidden_terms[n], script)
    THEN "Generated script contains forbidden term"
    ELSE IF \E n \in 1..Len(required_components) :
                ~InScript(required_components[n], script)
    THEN "Generated script missing required component"
    ELSE IF /\ InScript("objects.new(2 args)", script) \/ InScript("objects.new(3 args)", script)
            /\ InScript("camera_data", script)
            /\ InScript("objects.new(3 args)", script)
    THEN "Incorrect object creation syntax"
    ELSE ""

\* _modify_script_for_output_path: drop os.path assignments of output_path,
\* insert the argv handling after the last import line
modify_script_for_output_path(script) ==
    LET filtered == SelectSeq(script, LAMBDA l : l.k # "output_path = os.path")
        imports  == {i \in 1..Len(filtered) :
                        filtered[i].k \in {"import bpy", "import sys"}}
        idx      == IF imports = {} THEN 0
                    ELSE CHOOSE i \in imports : \A j \in imports : j <= i
        handling == (IF InScript("import sys", script) THEN << >>
                     ELSE <<L("import sys", "")>>)
                    \o <<L("output_path = sys.argv", "")>>
    IN  SubSeq(filtered, 1, idx) \o handling \o SubSeq(filtered, idx + 1, Len(filtered))

\* what the LLM may answer (the script between the code fences)
CubeBody == <<Prim("cube", "none", << >>), L("active_object", "cube"),
              L("material", "red"), L("assign_material", "cube")>>

ScriptGood == <<L("import bpy", "")>> \o CubeBody \o ScriptFooter

ScriptNoFormat == <<L("import bpy", "")>> \o CubeBody
                  \o <<L("bpy.ops.export_scene.gltf(", ""), L("filepath=output_path", "")>>

ScriptSubprocess == <<L("import bpy", ""), L("subprocess", "")>> \o CubeBody \o ScriptFooter

ScriptCamera3 == <<L("import bpy", ""), L("camera_data", "Camera"),
                   L("objects.new(3 args)", "Camera")>> \o CubeBody \o ScriptFooter

LLMScripts == {ScriptGood, ScriptNoFormat, ScriptSubprocess, ScriptCamera3, << >>}

LLMAnswers == [raised : {FALSE}, script : LLMScripts]
              \cup {[raised |-> TRUE, script |-> << >>]}

\* BlenderScriptGenerator.generate: the script, or the raised ValueError
generate(answer) ==
    IF answer.raised \/ answer.script = << >>
    THEN [raised |-> TRUE, script |-> << >>]
    ELSE LET script == fix_common_script_issues(answer.script)
         IN  IF validate_script_requirements(script) # ""
             THEN [raised |-> TRUE, script |-> << >>]
             ELSE [raised |-> FALSE, script |-> modify_script_for_output_path(script)]

\* ---------------------------------- scene_manager.py: modification analysis
\* the keywords of _fallback_analysis each prompt contains (prompt.lower())
PromptWords(p) ==
    CASE p = "paint the cube blue" -> {"paint", "cube", "blue"}
      [] p = "add a sphere"        -> {"add", "sphere"}
      [] p = "make the cube blue"  -> {"cube", "blue"}
      [] p = "move the ball"       -> {"move", "ball"}
      [] p = "paint it red and move the camera" -> {"paint", "red", "move", "camera"}
      [] OTHER                     -> {}

color_mapping == <<"red", "green", "blue", "yellow", "magenta", "cyan", "white",
                   "black", "orange", "purple", "pink">>

\* the first colour of color_mapping the prompt names ("none": color_value None)
ColorValue(p) ==
    LET hit == {n \in 1..Len(color_mapping) : color_mapping[n] \in PromptWords(p)}
    IN  IF hit = {} THEN "none"
        ELSE color_mapping[CHOOSE n \in hit : \A m \in hit : n <= m]

Clock == {0, 1}

\* f"new_{type}_{int(time.time())}": equal for equal type and second
TimeId(type, now) ==
    100 + 10 * (CHOOSE n \in 1..Len(PrimTypes) : PrimTypes[n] = type) + now

DisplayName(type) ==
    CASE type = "sphere"   -> "New Sphere"
      [] type = "cube"     -> "New Cube"
      [] type = "cylinder" -> "New Cylinder"
      [] OTHER             -> "New Plane"

Mentioned(p, obj) == VarName(obj.name) \in PromptWords(p) \/ obj.type \in PromptWords(p)

\* the changes of the mentioned objects (cameras and lights are skipped): of
\* the fields the keywords change, position and material are fields of the
\* object records here
RECURSIVE FallbackChanges(_, _)
FallbackChanges(p, objects) ==
    IF objects = << >> THEN << >>
    ELSE LET o == Head(objects)
             hit == o.type \notin {"camera", "light"} /\ Mentioned(p, o)
         IN  (IF hit /\ PromptWords(p) \cap {"move", "position", "translate"} # {}
              THEN <<[id |-> o.id, key |-> "position", val |-> o.position + 2]>>
              ELSE << >>)
             \o (IF /\ hit
                    /\ ColorValue(p) # "none"
                    /\ PromptWords(p) \cap {"color", "paint"} # {}
                 THEN <<[id |-> o.id, key |-> "material",
                         val |-> Mat(ColorValue(p), "none")]>>
                 ELSE << >>)
             \o FallbackChanges(p, Tail(objects))

FallbackRemovals(p, objects) ==
    {objects[i].id : i \in {j \in 1..Len(objects) :
        /\ objects[j].type \notin {"camera", "light"}
        /\ Mentioned(p, objects[j])
        /\ PromptWords(p) \cap {"remove", "delete", "eliminate"} # {}}}

FallbackAdds(p, now) ==
    LET shapes == {n \in 1..Len(PrimTypes) : PrimTypes[n] \in PromptWords(p)}
    IN  IF "add" \in PromptWords(p) /\ shapes # {}
        THEN LET type == PrimTypes[CHOOSE n \in shapes : \A m \in shapes : n <= m]
             IN  <<[Obj(TimeId(type, now), DisplayName(type), type, ColorValue(p))
                    EXCEPT !.size = AddedSize(type)]>>
        ELSE << >>

fallback_analysis(p, scene, now) ==
    [object_changes    |-> FallbackChanges(p, scene.objects),
     add_objects       |-> FallbackAdds(p, now),
     remove_object_ids |-> FallbackRemovals(p, scene.objects)]

\* what the analysis LLM may answer: an exception, text that is not JSON, or
\* a JSON instruction (here: nothing, or objects to add, with or without id)
LLMInstructions ==
    {NoInstruction,
     [NoInstruction EXCEPT !.add_objects =
         <<Obj(NoId, "New Planet", "sphere", "none")>>],
     [NoInstruction EXCEPT !.add_objects =
         <<Obj(NoId, "subprocess", "cube", "none")>>]}

LLMAnalyses == [kind : {"json"}, instr : LLMInstructions]
               \cup [kind : {"raise", "bad_json"}, instr : {NoInstruction}]

\* _map_objects_to_ids keeps add_objects and the references that name an
\* object of the scene
map_objects_to_ids(changes, scene) ==
    LET ids == {scene.objects[i].id : i \in 1..Len(scene.objects)}
    IN  [object_changes    |-> SelectSeq(changes.object_changes, LAMBDA c : c.id \in ids),
         add_objects       |-> changes.add_objects,
         remove_object_ids |-> changes.remove_object_ids \cap ids]

\* (variant: an answer that is not JSON gives the empty instruction)
analyze_modification_prompt_NoFallback(p, scene, a, now) ==
    IF a.kind = "json" THEN map_objects_to_ids(a.instr, scene)
    ELSE NoInstruction

analyze_modification_prompt(p, scene, a, now) ==
    IF a.kind = "json" THEN map_objects_to_ids(a.instr, scene)
    ELSE fallback_analysis(p, scene, now)

\* ------------------------------------------------------------------ state
VARIABLES
    thread_scenes,  \* SceneManager.thread_scenes: thread -> mapping record
    scene_files,    \* storage_dir/<id>.json: id -> file
    uuid_next,      \* the last value uuid4() returned
    st,             \* the AnimationState of the turn in progress
    pc,             \* the node the graph runs next ("idle": no turn yet)
    turns,          \* turns started
    obs,            \* what happened in the turn so far (history variable)
    last_turn,      \* thread -> how its latest turn ended (history variable)
    ret,            \* the latest SceneManager call and its result (history variable)
    thread_file,    \* storage_dir/thread_mappings.json
    peer_scenes,    \* thread_scenes of a second SceneManager on the same storage_dir
    clock,          \* datetime.datetime.now() of the animator, in ticks
    bucket,         \* the bucket: blob name -> the file the blob holds
    upload,         \* request -> where it is in GCSUploader.upload_file
    uploaded        \* the uploads that returned a URL (history variable)

gcs_vars == <<clock, bucket, upload, uploaded>>

agent_vars == <<thread_scenes, scene_files, uuid_next, st, pc, turns, obs, last_turn, ret,
                thread_file, peer_scenes>>

vars == <<agent_vars, gcs_vars>>

Msg(role, content) == [role |-> role, content |-> content]

BlankState ==
    [prompt |-> "", current_prompt |-> "", blender_script |-> << >>,
     generation_status |-> "", signed_url |-> "", error |-> "",
     history |-> << >>, thread_id |-> "", scene_state |-> NoScene,
     is_modification |-> FALSE, object_changes |-> NoInstruction]

BlankObs ==
    [had_scene |-> FALSE, routed |-> "", validator_calls |-> 0,
     generator_calls |-> 0, synthesizer_calls |-> 0, validated |-> FALSE,
     posted |-> FALSE, response |-> "", extraction |-> "",
     scene_write |-> "", url_write |-> "", prev |-> "none", ended_by |-> "",
     start_scene |-> NoScene, trail |-> << >>, analysis |-> "", analysis_now |-> 0,
     nodes |-> << >>, first_error |-> "",
     start_store |-> [thread_scenes |-> [t \in Threads |-> NoThread],
                      scene_files |-> [i \in 1..MaxIds |-> NoFile],
                      thread_file |-> NoMappingFile]]

NoCall == [op |-> "", thread |-> "", scene |-> NoScene, before |-> << >>,
           before_current |-> NoId, write |-> "", script |-> << >>,
           result |-> "", instr |-> NoInstruction, out |-> NoScene, via |-> "",
           prompt |-> ""]

\* ------------------------------------------- animator/gcs_uploader.py
\* the clock ticks TicksPerSecond times in a second
TicksPerSecond == 2

\* f'animations/{datetime.datetime.now().strftime("%Y%m%d_%H%M%S")}.glb': the
\* time cut to the second
BlobName(now) == now \div TicksPerSecond

BlobNames == {BlobName(now) : now \in 0..MaxClock}

\* the requests that upload, each with its own rendered file
Requests == {"r1", "r2"}

NoFileUploaded == [request |-> "", n |-> 0]

NoUpload == [pc |-> "idle", blob_name |-> 0, n |-> 0]

GcsInit ==
    /\ clock = 0
    /\ bucket = [b \in BlobNames |-> NoFileUploaded]
    /\ upload = [r \in Requests |-> NoUpload]
    /\ uploaded = {}

Init ==
    /\ GcsInit
    /\ thread_scenes = [t \in Threads |-> NoThread]
    /\ scene_files = [i \in 1..MaxIds |-> NoFile]
    /\ uuid_next = 0
    /\ st = BlankState
    /\ pc = "idle"
    /\ turns = 0
    /\ obs = BlankObs
    /\ last_turn = [t \in Threads |-> "none"]
    /\ ret = NoCall
    /\ thread_file = NoMappingFile
    /\ peer_scenes = load_thread_scenes(NoMappingFile)

\* ------------------------------------------------ animation_graph.py: graph
\* (variant: the error field is not looked at)
router_IgnoresError(state) ==
    IF state.is_modification /\ state.generation_status = "analyzing_modification"
    THEN "analyze_modification"
    ELSE IF state.generation_status = "analyzing" THEN "generate_script"
    ELSE IF state.generation_status = "modification_analyzed" THEN "generate_script"
    ELSE IF state.generation_status = "script_generated" THEN "render_animation"
    ELSE IF state.generation_status = "completed" THEN "end"
    ELSE "analyze_prompt"

\* (variant: a modification turn goes straight to script generation)
router_SkipsModificationAnalysis(state) ==
    IF state.error # "" THEN "end"
    ELSE IF state.generation_status \in {"analyzing", "analyzing_modification",
                                         "modification_analyzed"}
    THEN "generate_script"
    ELSE IF state.generation_status = "script_generated" THEN "render_animation"
    ELSE IF state.generation_status = "completed" THEN "end"
    ELSE "analyze_prompt"

router(state) ==
    IF state.error # "" THEN "end"
    ELSE IF state.is_modification /\ state.generation_status = "analyzing_modification"
    THEN "analyze_modification"
    ELSE IF state.generation_status = "analyzing" THEN "generate_script"
    ELSE IF state.generation_status = "modification_analyzed" THEN "generate_script"
    ELSE IF state.generation_status = "script_generated" THEN "render_animation"
    ELSE IF state.generation_status = "completed" THEN "end"
    ELSE "analyze_prompt"

\* the conditional edges create_animation_graph declares for each node
Edges(node) ==
    CASE node = "analyze_prompt"       -> {"generate_script", "analyze_modification", "end"}
      [] node = "analyze_modification" -> {"generate_script", "end"}
      [] node = "generate_script"      -> {"render_animation", "end"}
      [] node = "render_animation"     -> {"end"}

\* (variant: a turn in error is sent back to the entry point)
NextNode_RetriesOnError(node, state) ==
    IF state.error # "" THEN "analyze_prompt"
    ELSE IF router(state) \in Edges(node) THEN router(state) ELSE "graph_error"

\* the node run after `node` returned `state` (an undeclared edge stops the graph)
NextNode(node, state) ==
    IF router(state) \in Edges(node) THEN router(state) ELSE "graph_error"

\* (variant: the wording of the message takes part in the decision)
IsModificationRequest_ByWording(ts, files, t, prompt) ==
    Truthy(get_current_scene_for_thread(ts, files, t)) /\ PromptWords(prompt) # {}

\* (variant: the pointer is tested, not the record it points to)
IsModificationRequest_ByPointer(ts, files, t, prompt) ==
    ts[t].known /\ ts[t].currentSceneId # NoId

\* analyze_prompt's decision: the thread's current scene resolves to a record
IsModificationRequest(ts, files, t, prompt) ==
    Truthy(get_current_scene_for_thread(ts, files, t))

\* the statuses the turn has had, in order (a node that returns the status it
\* was given does not enter it again)
Entered(trail, status) ==
    IF trail # << >> /\ trail[Len(trail)] = status THEN trail
    ELSE Append(trail, status)

\* the first error a node of the turn has set (history variable)
FirstError(first, state) == IF first = "" THEN state.error ELSE first

\* run_animation_generation up to graph.invoke
StartTurn(t, p) ==
    /\ pc \in {"idle", "end"}
    /\ turns < MaxTurns
    /\ uuid_next + 2 <= MaxIds
    /\ LET current_scene == get_current_scene_for_thread(thread_scenes, scene_files, t)
       IN  /\ st' = [BlankState EXCEPT
                       !.prompt = p, !.current_prompt = p,
                       !.generation_status =
                           IF Truthy(current_scene) THEN "analyzing_modification"
                           ELSE "analyzing",
                       !.history = <<Msg("human", p)>>,
                       !.thread_id = t,
                       !.scene_state = current_scene,
                       !.is_modification = Truthy(current_scene)]
           /\ obs' = [BlankObs EXCEPT !.had_scene = Truthy(current_scene),
                                       !.prev = last_turn[t],
                                       !.start_scene = current_scene,
                                       !.start_store =
                                           [thread_scenes |-> thread_scenes,
                                            scene_files |-> scene_files,
                                            thread_file |-> thread_file],
                                       !.trail =
                                           <<IF Truthy(current_scene)
                                             THEN "analyzing_modification"
                                             ELSE "analyzing">>]
    /\ pc' = "analyze_prompt"
    /\ turns' = turns + 1
    /\ UNCHANGED <<gcs_vars, thread_scenes, scene_files, uuid_next, last_turn, ret,
                   thread_file, peer_scenes>>

\* a turn that ends records how it ended for its thread
EndOfTurn(node, state, how) ==
    /\ pc' = NextNode(node, state)
    /\ last_turn' = IF NextNode(node, state) = "end"
                    THEN [last_turn EXCEPT ![state.thread_id] = how]
                    ELSE last_turn

\* analyze_prompt; raised: an exception inside its try block
AnalyzePrompt(raised) ==
    /\ pc = "analyze_prompt"
    /\ LET current_scene == get_current_scene_for_thread(thread_scenes, scene_files,
                                                         st.thread_id)
           new == IF raised
                  THEN [st EXCEPT !.error = "Failed to analyze prompt",
                                  !.generation_status = "error"]
                  ELSE IF IsModificationRequest(thread_scenes, scene_files, st.thread_id,
                                                st.current_prompt)
                  THEN [st EXCEPT !.prompt = st.current_prompt,
                                  !.generation_status = "analyzing_modification",
                                  !.is_modification = TRUE,
                                  !.scene_state = current_scene,
                                  !.history = Append(st.history, Msg("ai", "modifying"))]
                  ELSE [st EXCEPT !.prompt = st.current_prompt,
                                  !.generation_status = "analyzing",
                                  !.is_modification = FALSE,
                                  !.history = Append(st.history, Msg("ai", "generating"))]
       IN  /\ st' = new
           /\ obs' = [obs EXCEPT !.routed = new.generation_status,
                                 !.trail = Entered(@, new.generation_status),
                                 !.nodes = Append(@, "analyze_prompt"),
                                 !.first_error = FirstError(@, new),
                                 !.ended_by = IF raised THEN "analyze_prompt" ELSE ""]
           /\ EndOfTurn("analyze_prompt", new, "error")
    /\ UNCHANGED <<gcs_vars, thread_scenes, scene_files, uuid_next, turns, ret,
                   thread_file, peer_scenes>>

\* the "New Planet" instruction of analyze_modification_request's inner except
FallbackChangesPlanet(uuid) ==
    [NoInstruction EXCEPT !.add_objects =
        <<[Obj(uuid + 1, "New Planet", "sphere", "red") EXCEPT !.size = "1.0"]>>]

\* analyze_modification_request; a: the analysis LLM's answer; malformed: the
\* answer's add_objects is not a list of objects (the id loop raises)
AnalyzeModification(a, now, malformed) ==
    /\ pc = "analyze_modification"
    /\ malformed => a.kind = "json"
    /\ LET instr == analyze_modification_prompt(st.prompt, st.scene_state, a, now)
           new == IF ~Truthy(st.scene_state)
                  THEN [st EXCEPT !.error = "No existing scene to modify",
                                  !.generation_status = "error"]
                  ELSE IF malformed
                  THEN [st EXCEPT !.object_changes = FallbackChangesPlanet(uuid_next),
                                  !.generation_status = "modification_analyzed"]
                  ELSE [st EXCEPT !.object_changes =
                                      [instr EXCEPT !.add_objects =
                                          AssignIds(instr.add_objects, uuid_next)],
                                  !.generation_status = "modification_analyzed"]
       IN  /\ st' = new
           /\ uuid_next' = IF ~Truthy(st.scene_state) THEN uuid_next
                           ELSE IF malformed THEN uuid_next + 1
                           ELSE uuid_next + MissingIds(instr.add_objects)
           /\ obs' = [obs EXCEPT
                        !.trail = Entered(@, new.generation_status),
                        !.nodes = Append(@, "analyze_modification"),
                        !.first_error = FirstError(@, new),
                        !.analysis = IF ~Truthy(st.scene_state) THEN ""
                                     ELSE IF malformed THEN "malformed" ELSE a.kind,
                        !.analysis_now =
                            IF Truthy(st.scene_state) /\ ~malformed /\ a.kind # "json"
                            THEN now ELSE 0,
                        !.ended_by =
                            IF new.error # "" THEN "analyze_modification" ELSE ""]
           /\ EndOfTurn("analyze_modification", new, "error")
    /\ UNCHANGED <<gcs_vars, thread_scenes, scene_files, turns, ret, thread_file, peer_scenes>>

\* (variant: the synthesized script is taken even when it is empty)
generate_blender_script_NoFallback(state, ts, files, uuid, answer) ==
    LET modifying == state.is_modification /\ Truthy(state.scene_state)
        synth == generate_script_with_modifications(ts, files, uuid, state.thread_id,
                                                    state.object_changes)
        g == generate(answer)
    IN  [modifying |-> modifying, use_llm |-> ~modifying,
         state |-> IF ~modifying /\ g.raised
                   THEN [state EXCEPT !.error = "Script generation error",
                                      !.generation_status = "error",
                                      !.history = Append(state.history,
                                                         Msg("ai", "script error"))]
                   ELSE [state EXCEPT !.blender_script =
                                          IF modifying THEN synth ELSE g.script,
                                      !.generation_status = "script_generated"]]

\* generate_blender_script: the state returned, whether the synthesizer was
\* called (modifying) and whether the script LLM was (use_llm)
generate_blender_script(state, ts, files, uuid, answer) ==
    LET modifying == state.is_modification /\ Truthy(state.scene_state)
        synth == generate_script_with_modifications(ts, files, uuid, state.thread_id,
                                                    state.object_changes)
        use_llm == ~modifying \/ synth = << >>
        g == generate(answer)
    IN  [modifying |-> modifying, use_llm |-> use_llm,
         state |-> IF use_llm /\ g.raised
                   THEN [state EXCEPT !.error = "Script generation error",
                                      !.generation_status = "error",
                                      !.history = Append(state.history,
                                                         Msg("ai", "script error"))]
                   ELSE [state EXCEPT !.blender_script =
                                          IF use_llm THEN g.script ELSE synth,
                                      !.generation_status = "script_generated"]]

\* the generate_script node; answer: what the script LLM returns if it is asked
GenerateScript(answer) ==
    /\ pc = "generate_script"
    /\ LET r == generate_blender_script(st, thread_scenes, scene_files, uuid_next, answer)
           modifying == r.modifying
           use_llm == r.use_llm
           g == generate(answer)
           new == r.state
       IN  /\ ~use_llm => answer = [raised |-> TRUE, script |-> << >>]
           /\ st' = new
           /\ obs' = [obs EXCEPT
                        !.synthesizer_calls = @ + (IF modifying THEN 1 ELSE 0),
                        !.generator_calls = @ + (IF use_llm THEN 1 ELSE 0),
                        !.validator_calls =
                            @ + (IF use_llm /\ ~answer.raised /\ answer.script # << >>
                                 THEN 1 ELSE 0),
                        !.validated = use_llm /\ ~g.raised,
                        !.trail = Entered(@, new.generation_status),
                        !.nodes = Append(@, "generate_script"),
                        !.first_error = FirstError(@, new),
                        !.ended_by = IF new.error # "" THEN "generate_script" ELSE ""]
           /\ EndOfTurn("generate_script", new, "error")
    /\ UNCHANGED <<gcs_vars, thread_scenes, scene_files, uuid_next, turns, ret,
                   thread_file, peer_scenes>>

\* (variant: a 200 answer without signed_url is taken as a success)
RenderError_NoUrlCheck(resp) ==
    CASE resp = "raise"         -> "Render animation error"
      [] resp = "http_500"      -> "Blender service error"
      [] resp = "bad_json"      -> "Invalid JSON response from Blender service"
      [] resp = "error_field"   -> "render failed"
      [] OTHER                  -> ""

\* (variant: the error field of a 200 answer is not looked at)
RenderError_IgnoresErrorField(resp) ==
    CASE resp = "raise"         -> "Render animation error"
      [] resp = "http_500"      -> "Blender service error"
      [] resp = "bad_json"      -> "Invalid JSON response from Blender service"
      [] resp = "no_url"        -> "No signed URL returned from rendering service"
      [] OTHER                  -> ""

\* what the POST /render call may give: an exception (token, connection,
\* timeout), a non-200 status, a body that is not JSON, a body with an error
\* field, a body without signed_url, or a body with one
Responses == {"raise", "http_500", "bad_json", "error_field", "no_url", "ok"}

HTTP_OK == 200

StatusCode(resp) == IF resp = "http_500" THEN 500 ELSE HTTP_OK

SignedUrl == "https://x/y.glb"

RenderError(resp) ==
    CASE resp = "raise"         -> "Render animation error"
      [] StatusCode(resp) # HTTP_OK -> "Blender service error"
      [] resp = "bad_json"      -> "Invalid JSON response from Blender service"
      [] resp = "error_field"   -> "render failed"
      [] resp = "no_url"        -> "No signed URL returned from rendering service"
      [] OTHER                  -> ""

\* (variant: no try block of its own around the scene extraction)
TurnError_NoInnerTry(resp, ex) ==
    IF RenderError(resp) = "" /\ ex = "raised" THEN "Render animation error"
    ELSE RenderError(resp)

\* the error render_animation ends with: exceptions of the scene extraction
\* and of the signed-URL update are caught where they are raised
TurnError(resp, ex) == RenderError(resp)

\* (variant: the scene is extracted before the signed URL is looked at)
Stored_BeforeUrlCheck(resp, ex) == resp \in {"ok", "no_url"} /\ ex = "returned"

\* whether render_animation records the scene of the script: only after
\* every check of the renderer's answer has passed
Stored(resp, ex) == TurnError(resp, ex) = "" /\ ex = "returned"

\* result.get("signed_url", "")
ResultSignedUrl(resp) == IF resp = "ok" THEN SignedUrl ELSE ""

\* render_animation; resp: the renderer's answer; ex: whether
\* extract_scene_from_script returns or raises; w1, w2: the outcomes of the
\* scene-file write and of the write of update_scene_with_signed_url; wm:
\* the outcome of the write of the thread mapping
RenderAnimation(resp, ex, w1, w2, wm) ==
    /\ pc = "render_animation"
    /\ resp # "ok" => ex = "returned"
    /\ (resp # "ok" \/ ex = "raised") => w1 = "ok" /\ wm = "ok"
    /\ (resp # "ok" \/ ex = "raised" \/ w1 # "ok") => w2 = "ok"
    /\ LET t == st.thread_id
           r == extract_scene_from_script(thread_scenes, scene_files, uuid_next,
                                          st.blender_script, t, w1)
           failed == TurnError(resp, ex) # ""
           stored == Stored(resp, ex)
           ts2 == IF stored THEN r.ts ELSE thread_scenes
           files2 == IF stored
                     THEN update_scene_with_signed_url(r.files, r.scene.id, SignedUrl, w2)
                     ELSE scene_files
           new == IF st.error # "" THEN st
                  ELSE IF failed
                  THEN [st EXCEPT !.error = TurnError(resp, ex),
                                  !.generation_status = "error",
                                  !.history = Append(st.history, Msg("ai", "render error"))]
                  ELSE [st EXCEPT !.signed_url = ResultSignedUrl(resp),
                                  !.generation_status = "completed",
                                  !.history = Append(st.history, Msg("ai", "ready")),
                                  !.scene_state =
                                      IF ex = "returned" THEN r.scene
                                      ELSE get_current_scene_for_thread(ts2, files2, t)]
       IN  /\ st' = new
           /\ thread_scenes' = ts2
           /\ scene_files' = files2
           /\ thread_file' = IF stored THEN save_thread_scenes(thread_file, r.ts, wm)
                             ELSE thread_file
           /\ uuid_next' = IF stored THEN r.uuid ELSE uuid_next
           /\ obs' = [obs EXCEPT
                        !.posted = (resp # "raise"),
                        !.trail = Entered(@, new.generation_status),
                        !.nodes = Append(@, "render_animation"),
                        !.first_error = FirstError(@, new),
                        !.response = resp,
                        !.extraction = IF failed THEN "" ELSE ex,
                        !.scene_write = IF stored THEN w1 ELSE "",
                        !.url_write = IF stored /\ w1 = "ok" THEN w2 ELSE "",
                        !.ended_by = IF new.error # "" THEN "render_animation" ELSE ""]
           /\ EndOfTurn("render_animation", new,
                        IF failed THEN "error"
                        ELSE IF ex = "raised" THEN "extract_raised"
                        ELSE IF w1 # "ok" THEN "write_failed"
                        ELSE IF w2 = "truncated" THEN "url_write_cut"
                        ELSE "saved")
    /\ UNCHANGED <<gcs_vars, turns, ret, peer_scenes>>

Next ==
    \/ \E t \in Threads, p \in Prompts : StartTurn(t, p)
    \/ \E raised \in BOOLEAN : AnalyzePrompt(raised)
    \/ \E a \in LLMAnalyses, now \in Clock, malformed \in BOOLEAN :
           AnalyzeModification(a, now, malformed)
    \/ \E answer \in LLMAnswers : GenerateScript(answer)
    \/ \E resp \in Responses, ex \in {"returned", "raised"},
          w1 \in WriteOutcomes, w2 \in WriteOutcomes, wm \in WriteOutcomes :
           RenderAnimation(resp, ex, w1, w2, wm)

Spec == Init /\ [][Next]_vars

\* ------------------------------------------- the scene store called directly
\* SceneManager.extract_scene_from_script(script, prompt, t)
ExtractSceneFromScript(t, script, w, wm) ==
    /\ uuid_next < MaxStoreCalls
    /\ uuid_next < MaxIds
    /\ LET r == extract_scene_from_script(thread_scenes, scene_files, uuid_next,
                                          script, t, w)
       IN  /\ thread_scenes' = r.ts
           /\ scene_files' = r.files
           /\ thread_file' = save_thread_scenes(thread_file, r.ts, wm)
           /\ uuid_next' = r.uuid
           /\ ret' = [op |-> "extract", thread |-> t, scene |-> r.scene,
                      before |-> get_thread_scene_history(thread_scenes, scene_files, t),
                      before_current |-> IF thread_scenes[t].known
                                         THEN thread_scenes[t].currentSceneId
                                         ELSE NoId,
                      write |-> w]
    /\ UNCHANGED <<gcs_vars, st, pc, turns, obs, last_turn, peer_scenes>>

\* SceneManager.update_scene_with_signed_url(scene_id, signed_url)
UpdateSceneWithSignedUrl(scene_id, w) ==
    /\ scene_files' = update_scene_with_signed_url(scene_files, scene_id, SignedUrl, w)
    /\ ret' = [NoCall EXCEPT !.op = "update", !.write = w]
    /\ UNCHANGED <<gcs_vars, thread_scenes, uuid_next, st, pc, turns, obs, last_turn,
                   thread_file, peer_scenes>>

\* the state generate_blender_script gets in a modification turn on thread t
\* whose scene_state is `scene`
ModificationState(t, scene, instr) ==
    [BlankState EXCEPT !.prompt = "add a sphere", !.current_prompt = "add a sphere",
                       !.generation_status = "modification_analyzed",
                       !.history = <<Msg("human", "add a sphere"), Msg("ai", "modifying")>>,
                       !.thread_id = t, !.scene_state = scene,
                       !.is_modification = TRUE, !.object_changes = instr]

\* generate_blender_script(state) for a modification state of the thread of
\* the latest extraction, scene_state being the scene that extraction
\* returned (its record may not have been written)
GenerateBlenderScript(instr, answer) ==
    /\ ret.op = "extract"
    /\ LET r == generate_blender_script(ModificationState(ret.thread, ret.scene, instr),
                                        thread_scenes, scene_files, uuid_next, answer)
       IN  /\ ~r.use_llm => answer = [raised |-> TRUE, script |-> << >>]
           /\ ret' = [NoCall EXCEPT !.op = "generate", !.thread = ret.thread,
                                    !.scene = ret.scene, !.instr = instr,
                                    !.script = r.state.blender_script,
                                    !.result = r.state.generation_status,
                                    !.via = IF r.use_llm THEN "generator"
                                            ELSE "synthesizer"]
    /\ UNCHANGED <<gcs_vars, thread_scenes, scene_files, uuid_next, st, pc, turns, obs, last_turn,
                   thread_file, peer_scenes>>

StoreNext ==
    \/ \E t \in Threads, script \in {ScriptGood, ScriptHeader \o ScriptFooter},
          w \in WriteOutcomes, wm \in WriteOutcomes :
           ExtractSceneFromScript(t, script, w, wm)
    \/ \E scene_id \in 1..uuid_next, w \in WriteOutcomes :
           UpdateSceneWithSignedUrl(scene_id, w)
    \/ \E instr \in LLMInstructions, answer \in LLMAnswers :
           GenerateBlenderScript(instr, answer)

StoreSpec == Init /\ [][StoreNext]_vars

\* ------------------------- two SceneManager instances on one storage_dir
Instances == {"main", "peer"}

\* SceneManager.extract_scene_from_script called on one of the instances
ExtractOn(inst, t, script, w, wm) ==
    /\ uuid_next < MaxStoreCalls
    /\ uuid_next < MaxIds
    /\ LET mine == IF inst = "main" THEN thread_scenes ELSE peer_scenes
           r == extract_scene_from_script(mine, scene_files, uuid_next, script, t, w)
       IN  /\ thread_scenes' = IF inst = "main" THEN r.ts ELSE thread_scenes
           /\ peer_scenes' = IF inst = "peer" THEN r.ts ELSE peer_scenes
           /\ scene_files' = r.files
           /\ thread_file' = save_thread_scenes(thread_file, r.ts, wm)
           /\ uuid_next' = r.uuid
           /\ ret' = [NoCall EXCEPT !.op = "extract", !.thread = t, !.scene = r.scene,
                                    !.write = w, !.result = wm, !.via = inst]
    /\ UNCHANGED <<gcs_vars, st, pc, turns, obs, last_turn>>

\* SceneManager(): an instance is constructed again (its process restarts)
StartInstance(inst) ==
    /\ thread_scenes' = IF inst = "main" THEN load_thread_scenes(thread_file)
                        ELSE thread_scenes
    /\ peer_scenes' = IF inst = "peer" THEN load_thread_scenes(thread_file)
                      ELSE peer_scenes
    /\ ret' = [NoCall EXCEPT !.op = "start", !.via = inst]
    /\ UNCHANGED <<gcs_vars, scene_files, thread_file, uuid_next, st, pc, turns, obs, last_turn>>

SharedStoreNext ==
    \/ \E inst \in Instances, t \in Threads, w \in WriteOutcomes, wm \in WriteOutcomes :
           ExtractOn(inst, t, ScriptGood, w, wm)
    \/ \E inst \in Instances : StartInstance(inst)

SharedStoreSpec == Init /\ [][SharedStoreNext]_vars

\* ------------------------------------------ the functions called directly
\* the dangerous calls of each kind a script may hold
DangerousCalls ==
    [spawn   |-> {"subprocess", "os.system"},
     eval    |-> {"eval(", "exec("},
     file    |-> {"open("},
     network |-> {"import requests", "import urllib"}]

AllDangerousCalls == UNION {DangerousCalls[k] : k \in DOMAIN DangerousCalls}

\* script with the line `line` put in after its first n lines
Injected(script, n, line) ==
    SubSeq(script, 1, n) \o <<line>> \o SubSeq(script, n + 1, Len(script))

ValidatorInputs ==
    (LLMScripts \ {<< >>})
    \cup {Injected(script, n, L(term, "")) :
             script \in {ScriptGood, ScriptNoFormat, ScriptHeader \o ScriptFooter},
             n \in {1, 3}, term \in AllDangerousCalls}

\* the statements a script given to the parser is made of, n being the
\* position of the statement group in the script: an assignment from
\* bpy.context.active_object alone, after a cube, sphere or located cube
\* creation call, or a plane creation call that is not assigned
VarNames == <<"obj1", "obj2", "obj3", "obj4", "obj5">>

Statements(kind, n) ==
    CASE kind = "assign" -> <<L("active_object", VarNames[n])>>
      [] kind = "cube"   -> <<Prim("cube", "none", << >>), L("active_object", VarNames[n])>>
      [] kind = "cube_at" -> <<Prim("cube", "3.0", <<4>>), L("active_object", VarNames[n])>>
      [] kind = "sphere" -> <<Prim("sphere", "1.5", << >>), L("active_object", VarNames[n])>>
      [] kind = "plane"  -> <<Prim("plane", "none", << >>)>>

RECURSIVE ScriptOf(_, _)
ScriptOf(kinds, n) ==
    IF n > Len(kinds) THEN << >>
    ELSE Statements(kinds[n], n) \o ScriptOf(kinds, n + 1)

ParserInputs ==
    {<<L("import bpy", "")>> \o ScriptOf(kinds, 1) :
        kinds \in UNION {[1..n -> {"assign", "cube", "cube_at", "sphere", "plane"}] :
                             n \in 1..MaxCalls}}

\* the objects scenes are made of: ids as uuid4 gave them, pairwise distinct
ObjectPool ==
    <<[Obj(11, "cube", "cube", "red") EXCEPT !.roughness = "rough", !.size = "2.0"],
      [Obj(12, "ball", "sphere", "none") EXCEPT !.size = "1.5", !.position = 4],
      [Obj(13, "subprocess", "cube", "none") EXCEPT !.size = "2.0"],
      Obj(14, "Camera", "camera", "none")>>

ObjectLists ==
    LET picks == UNION {[1..n -> 1..Len(ObjectPool)] : n \in 0..MaxObjects}
    IN  {[i \in DOMAIN f |-> ObjectPool[f[i]]] :
            f \in {g \in picks : \A i, j \in DOMAIN g : g[i] = g[j] => i = j}}

SceneStates ==
    {[id |-> 20, objects |-> o, derivedFrom |-> NoId, glbUrl |-> "https://x/y.glb"] :
        o \in ObjectLists}

Change(id, key, val) == [id |-> id, key |-> key, val |-> val]

\* instructions: changes of material, position and name, of known and unknown
\* ids; removals; additions with and without id, one with the id of an object
ModificationInstructions ==
    [object_changes :
        {<< >>,
         <<Change(11, "material", Mat("blue", "none"))>>,
         <<Change(11, "material", Mat("none", "smooth"))>>,
         <<Change(11, "position", 2)>>,
         <<Change(11, "name", "renamed")>>,
         <<Change(99, "position", 2)>>,
         <<Change(12, "material", Mat("green", "none")), Change(11, "position", 2)>>},
     add_objects :
        {<< >>,
         <<Obj(NoId, "New Planet", "sphere", "none")>>,
         <<Obj(11, "twin", "cube", "none")>>,
         <<Obj(31, "moon", "sphere", "none"), Obj(NoId, "box", "cube", "blue")>>},
     remove_object_ids : SUBSET {11, 12}]

\* the modification prompts the keyword fallback is given
FallbackPrompts ==
    {"paint the cube blue", "make the cube blue", "move the ball",
     "paint it red and move the camera", "add a sphere"}

\* the arguments of one call, drawn before the call is made
FunctionInputs ==
    {[NoCall EXCEPT !.op = "call", !.script = script] :
        script \in ValidatorInputs \cup ParserInputs}
    \cup {[NoCall EXCEPT !.op = "call", !.scene = scene, !.instr = instr] :
             scene \in SceneStates, instr \in ModificationInstructions}
    \cup {[NoCall EXCEPT !.op = "call", !.scene = scene, !.prompt = prompt] :
             scene \in SceneStates, prompt \in FallbackPrompts}

FunctionInit ==
    /\ GcsInit
    /\ thread_scenes = [t \in Threads |-> NoThread]
    /\ scene_files = [i \in 1..MaxIds |-> NoFile]
    /\ uuid_next = 0
    /\ st = BlankState
    /\ pc = "idle"
    /\ turns = 0
    /\ obs = BlankObs
    /\ last_turn = [t \in Threads |-> "none"]
    /\ ret \in FunctionInputs
    /\ thread_file = NoMappingFile
    /\ peer_scenes = load_thread_scenes(NoMappingFile)

\* BlenderScriptGenerator._validate_script_requirements(script)
ValidateScriptRequirements ==
    /\ ret.op = "call"
    /\ ret.script # << >>
    /\ ret' = [ret EXCEPT !.op = "validate",
                          !.result = validate_script_requirements(ret.script)]
    /\ UNCHANGED <<gcs_vars, thread_scenes, scene_files, uuid_next, st, pc, turns, obs, last_turn,
                   thread_file, peer_scenes>>

\* ScriptParser(script)._extract_objects(), up to the camera search: the
\* entries it has appended to self.objects
ExtractObjects ==
    /\ ret.op = "call"
    /\ ret.script # << >>
    /\ ret' = [ret EXCEPT !.op = "extract_objects",
                          !.out = [NoScene EXCEPT !.objects =
                                      extract_objects(ret.script, 1, uuid_next)]]
    /\ UNCHANGED <<gcs_vars, thread_scenes, scene_files, uuid_next, st, pc, turns, obs, last_turn,
                   thread_file, peer_scenes>>

\* generate_script_from_scene_state(scene)
GenerateScriptFromSceneState ==
    /\ ret.op = "call"
    /\ Truthy(ret.scene)
    /\ ret.prompt = ""
    /\ ret.instr = NoInstruction
    /\ ret' = [ret EXCEPT !.op = "synthesize",
                          !.script = generate_script_from_scene_state(ret.scene)]
    /\ UNCHANGED <<gcs_vars, thread_scenes, scene_files, uuid_next, st, pc, turns, obs, last_turn,
                   thread_file, peer_scenes>>

\* the modifications of generate_script_with_modifications applied to a scene
ModifyScene ==
    /\ ret.op = "call"
    /\ Truthy(ret.scene)
    /\ ret.prompt = ""
    /\ ret' = [ret EXCEPT !.op = "modify",
                          !.out = modified_scene(ret.scene, uuid_next, ret.instr)]
    /\ UNCHANGED <<gcs_vars, thread_scenes, scene_files, uuid_next, st, pc, turns, obs, last_turn,
                   thread_file, peer_scenes>>

\* SceneManager._fallback_analysis(prompt, scene_state) at clock second `now`
FallbackAnalysis(now) ==
    /\ ret.op = "call"
    /\ ret.prompt # ""
    /\ ret' = [ret EXCEPT !.op = "fallback",
                          !.instr = fallback_analysis(ret.prompt, ret.scene, now)]
    /\ UNCHANGED <<gcs_vars, thread_scenes, scene_files, uuid_next, st, pc, turns, obs, last_turn,
                   thread_file, peer_scenes>>

FunctionNext ==
    \/ ValidateScriptRequirements
    \/ ExtractObjects
    \/ GenerateScriptFromSceneState
    \/ ModifyScene
    \/ \E now \in Clock : FallbackAnalysis(now)

FunctionSpec == FunctionInit /\ [][FunctionNext]_vars

\* ------------------------------------------------- uploads of the animator
\* time passes
Tick ==
    /\ clock < MaxClock
    /\ clock' = clock + 1
    /\ UNCHANGED <<agent_vars, bucket, upload, uploaded>>

\* upload_file up to self.bucket.blob(blob_name): the request's n-th file
\* gets its blob name from the clock
NameBlob(r) ==
    /\ upload[r].pc = "idle"
    /\ upload[r].n < MaxUploads
    /\ upload' = [upload EXCEPT ![r] = [pc |-> "named", blob_name |-> BlobName(clock),
                                        n |-> upload[r].n + 1]]
    /\ UNCHANGED <<agent_vars, clock, bucket, uploaded>>

\* blob.upload_from_file and generate_signed_url: the blob now holds the
\* file; raised: open, the upload or the signing raises and upload_file
\* raises again (before the blob is written)
UploadFromFile(r, raised) ==
    /\ upload[r].pc = "named"
    /\ LET file == [request |-> r, n |-> upload[r].n]
       IN  /\ bucket' = IF raised THEN bucket
                        ELSE [bucket EXCEPT ![upload[r].blob_name] = file]
           /\ uploaded' = IF raised THEN uploaded
                          ELSE uploaded \cup {[file |-> file,
                                               blob_name |-> upload[r].blob_name]}
    /\ upload' = [upload EXCEPT ![r].pc = "idle"]
    /\ UNCHANGED <<agent_vars, clock>>

UploadNext ==
    \/ Tick
    \/ \E r \in Requests : NameBlob(r)
    \/ \E r \in Requests, raised \in BOOLEAN : UploadFromFile(r, raised)

UploadSpec == Init /\ [][UploadNext]_vars

\* ----------------------------------------------------------------- claims
Ids(scenes) == [i \in 1..Len(scenes) |-> scenes[i].id]

Occurrences(seq, x) == Cardinality({i \in 1..Len(seq) : seq[i] = x})

Geometry(objects) == SelectSeq(objects, LAMBDA o : o.type \notin {"camera", "light"})

PrimitiveCalls(script) == SelectSeq(script, LAMBDA l : l.k = "primitive_add")

CreatesOneCube(script) ==
    /\ Len(PrimitiveCalls(script)) = 1
    /\ PrimitiveCalls(script)[1].a = "cube"
    /\ Len(SelectSeq(script, LAMBDA l : l.k = "active_object")) = 1

AnalyzePromptReturned == pc \notin {"idle", "analyze_prompt"} /\ obs.ended_by # "analyze_prompt"

CurrentScene(t) == get_current_scene_for_thread(thread_scenes, scene_files, t)

\* C1: a turn that starts while the thread's current scene resolves to a
\* stored scene is routed to analyzing_modification with is_modification
\* true and goes on to analyze_modification, whatever the message text; it is
\* never routed to analyzing.
C1_PriorSceneRoutesToModification ==
    (obs.had_scene /\ pc \notin {"idle", "analyze_prompt"}) =>
        /\ obs.routed # "analyzing"
        /\ AnalyzePromptReturned =>
              /\ obs.routed = "analyzing_modification"
              /\ st.is_modification
              /\ st.generation_status = "analyzing_modification"
                    => pc = "analyze_modification"

C1_Witness ==
    /\ obs.had_scene
    /\ st.current_prompt = "hello"
    /\ pc = "analyze_modification"
    /\ obs.routed = "analyzing_modification"

\* C2: a turn on a thread without prior scene whose message has no
\* animation-related language ends with status conversation_only, and
\* neither the script validator nor the script generator or synthesizer is
\* called in it.
C2_SmallTalkIsConversationOnly ==
    (~obs.had_scene /\ PromptWords(st.current_prompt) = {} /\ AnalyzePromptReturned) =>
        /\ obs.validator_calls = 0
        /\ obs.generator_calls = 0
        /\ obs.synthesizer_calls = 0
        /\ pc = "end" => st.generation_status = "conversation_only"

\* C3: every script sent to the renderer has passed the script validator
\* earlier in the same turn, on the fresh and on the modification path.
C3_PostedScriptWasValidated ==
    obs.posted =>
        /\ obs.validated
        /\ validate_script_requirements(st.blender_script) = ""

\* C4 as claimed: after extract_scene_from_script returned s for thread t,
\* get_current_scene_for_thread(t) has s.id and the thread's scene history is
\* the history before with s appended.
C4_CurrentSceneIsExtracted ==
    ret.op = "extract" =>
        /\ CurrentScene(ret.thread).id = ret.scene.id
        /\ Ids(get_thread_scene_history(thread_scenes, scene_files, ret.thread))
              = Append(Ids(ret.before), ret.scene.id)

\* C4 as amended: after extract_scene_from_script returned s for thread t,
\* the thread's pointer is s.id and its history list holds s.id exactly once,
\* as the last entry after the entries it had; when the scene-file write
\* succeeded get_current_scene_for_thread(t) has s.id and the loaded history
\* is the loaded history before with s appended; when the write failed (the
\* error is swallowed) get_current_scene_for_thread(t) is absent and the
\* loaded history is the one before.
C4_CurrentSceneIsExtractedIfWritten ==
    ret.op = "extract" =>
        LET t == ret.thread
            loaded == Ids(get_thread_scene_history(thread_scenes, scene_files, t))
            hist == thread_scenes[t].sceneHistory
        IN  /\ thread_scenes[t].currentSceneId = ret.scene.id
            /\ Occurrences(hist, ret.scene.id) = 1
            /\ hist[Len(hist)] = ret.scene.id
            /\ SubSeq(loaded, 1, Len(ret.before)) = Ids(ret.before)
            /\ IF ret.write = "ok"
               THEN /\ CurrentScene(t).id = ret.scene.id
                    /\ loaded = Append(Ids(ret.before), ret.scene.id)
               ELSE /\ CurrentScene(t) = NoScene
                    /\ loaded = Ids(ret.before)

C4_Witness ==
    /\ ret.op = "extract"
    /\ ret.write = "ok"
    /\ Len(ret.before) = 1
    /\ CurrentScene(ret.thread).id = ret.scene.id
    /\ Len(thread_scenes[ret.thread].sceneHistory) = 3

\* C5: a scene recorded for a thread that had a current scene has derivedFrom
\* equal to the thread's currentSceneId just before the recording.
C5_DerivedFromIsPredecessor ==
    (ret.op = "extract" /\ ret.before_current # NoId) =>
        /\ ret.scene.derivedFrom = ret.before_current
        /\ scene_files[ret.scene.id].st = "ok"
              => scene_files[ret.scene.id].rec.derivedFrom = ret.before_current

\* C6: the scene persisted by a completed turn holds the geometry the
\* rendered script creates: one cube after a first turn whose script creates
\* one cube, and after a modification turn that removes nothing every
\* geometry object of the previous current scene.
C6_PersistedSceneHoldsGeometry ==
    (pc = "end" /\ st.generation_status = "completed"
        /\ Truthy(CurrentScene(st.thread_id))) =>
        LET now_objects == Geometry(CurrentScene(st.thread_id).objects)
            old_objects == Geometry(obs.start_scene.objects)
        IN  /\ (~obs.had_scene /\ CreatesOneCube(st.blender_script)) =>
                   /\ Len(now_objects) = 1
                   /\ now_objects[1].type = "cube"
            /\ (obs.had_scene /\ st.object_changes.remove_object_ids = {}) =>
                   \A i \in 1..Len(old_objects) :
                       \E j \in 1..Len(now_objects) :
                           /\ now_objects[j].name = old_objects[i].name
                           /\ now_objects[j].type = old_objects[i].type

C8_RenderSuccessIsCompleted ==
    obs.response = "ok" =>
        /\ pc = "end"
        /\ st.generation_status = "completed"
        /\ st.signed_url = SignedUrl
        /\ st.error = ""

C8_Witness ==
    /\ obs.response = "ok"
    /\ obs.extraction = "raised"
    /\ st.generation_status = "completed"

\* C9: a non-200 status, a body that is not JSON and a non-empty error field
\* each end the turn with generation_status error and a non-empty error.
C9_RenderFailureIsError ==
    obs.response \in {"http_500", "bad_json", "error_field"} =>
        /\ pc = "end"
        /\ st.generation_status = "error"
        /\ st.error # ""
        /\ st.signed_url = ""

C9_Witness ==
    /\ obs.response = "error_field"
    /\ st.generation_status = "error"
    /\ st.error = "render failed"

\* C10: the history of every turn that ends in error ends with an AI message
\* explaining the failure.
C10_ErrorTurnEndsWithAiMessage ==
    (pc = "end" /\ st.generation_status = "error") =>
        /\ st.history # << >>
        /\ st.history[Len(st.history)].role = "ai"
        /\ st.history[Len(st.history)].content \in {"script error", "render error"}

IsPrefix(a, b) == Len(a) <= Len(b) /\ a = SubSeq(b, 1, Len(a))

\* the statuses of a turn before the error status, if it has it
BeforeError(trail) ==
    IF trail # << >> /\ trail[Len(trail)] = "error"
    THEN SubSeq(trail, 1, Len(trail) - 1)
    ELSE trail

FreshStatuses == <<"analyzing", "script_generated", "completed">>

ModificationStatuses ==
    <<"analyzing_modification", "modification_analyzed", "script_generated",
      "completed">>

\* C11 as claimed: the statuses of a completed turn are started, analyzing or
\* analyzing_modification, modification_analyzed (modification turns only),
\* script_generated, render_pending, completed, in that order.
C11_StatusesStartedToCompleted ==
    (pc = "end" /\ st.generation_status = "completed") =>
        obs.trail \in {<<"started", "analyzing", "script_generated",
                         "render_pending", "completed">>,
                       <<"started", "analyzing_modification", "modification_analyzed",
                         "script_generated", "render_pending", "completed">>}

\* C11 as amended: the statuses of a turn are analyzing or
\* analyzing_modification (set when the turn starts and again by
\* analyze_prompt), then modification_analyzed (modification turns only),
\* then script_generated, then completed; started and render_pending are
\* never set; each status is entered only from its predecessor in that
\* sequence (error from any of them, and nothing after error), and a turn
\* that ends completed has had every status of its sequence in order.
C11_StatusesAnalyzingToCompleted ==
    pc # "idle" =>
        /\ \/ IsPrefix(BeforeError(obs.trail), FreshStatuses)
           \/ IsPrefix(BeforeError(obs.trail), ModificationStatuses)
        /\ BeforeError(obs.trail) # << >>
        /\ st.generation_status = obs.trail[Len(obs.trail)]
        /\ (pc = "end" /\ st.generation_status = "completed") =>
              obs.trail = IF st.is_modification THEN ModificationStatuses
                          ELSE FreshStatuses

C11_Witness ==
    /\ pc = "end"
    /\ st.generation_status = "completed"
    /\ obs.trail = ModificationStatuses

\* C12: when the analysis LLM raises or answers text that is not JSON, the
\* instruction the turn goes on with is the one the keyword fallback computes
\* from the prompt and the scene, the turn is in modification_analyzed
\* without error, and no turn ends in error in analyze_modification.
C12_AnalysisFailureUsesFallback ==
    /\ obs.ended_by # "analyze_modification"
    /\ obs.analysis # "" => IsPrefix(<<"analyzing_modification", "modification_analyzed">>,
                                     obs.trail)
    /\ (obs.analysis \in {"raise", "bad_json"}
          /\ st.generation_status \in {"modification_analyzed", "script_generated"}) =>
            /\ st.object_changes =
                   fallback_analysis(st.prompt, st.scene_state, obs.analysis_now)
            /\ st.error = ""

C12_Witness ==
    /\ obs.analysis = "bad_json"
    /\ st.prompt = "add a sphere"
    /\ pc = "generate_script"
    /\ st.object_changes.add_objects # << >>

\* C13: every script that holds a dangerous call of one of the four kinds
\* (process spawn, dynamic evaluation, file open, network) is rejected by
\* the validator, whatever else it holds.
C13_DangerousScriptIsRejected ==
    (ret.op = "validate" /\ \E term \in AllDangerousCalls : InScript(term, ret.script)) =>
        ret.result # ""

\* C14: the script synthesized from any scene state passes the validator.
C14_SynthesizedScriptPasses ==
    ret.op = "synthesize" => validate_script_requirements(ret.script) = ""

\* the items of the instruction that change field `key` of the object `id`
ItemsOf(changes, id, key) ==
    {changes[n] : n \in {m \in 1..Len(changes) :
                            changes[m].id = id /\ changes[m].key = key}}

\* C15: the all-empty instruction gives a copy with the same objects list
\* (same ids, fields, order) and the same glbUrl; the id is new and
\* derivedFrom is the id of the input.
C15_EmptyInstructionKeepsObjects ==
    (ret.op = "modify" /\ ret.instr = NoInstruction) =>
        /\ ret.out.objects = ret.scene.objects
        /\ ret.out.glbUrl = ret.scene.glbUrl
        /\ ret.out.id # ret.scene.id
        /\ ret.out.derivedFrom = ret.scene.id

C15_Witness ==
    /\ ret.op = "modify"
    /\ ret.instr = NoInstruction
    /\ Len(ret.scene.objects) = MaxObjects
    /\ ret.out.objects = ret.scene.objects

\* C16: removing k distinct ids of objects of a scene with N objects and
\* adding m objects gives N - k + m objects: the retained ones in their
\* order, then the added ones in theirs.
C16_RemoveThenAddCounts ==
    (ret.op = "modify"
        /\ ret.instr.remove_object_ids \subseteq {ret.scene.objects[i].id :
                                                     i \in 1..Len(ret.scene.objects)}) =>
        LET N == Len(ret.scene.objects)
            k == Cardinality(ret.instr.remove_object_ids)
            m == Len(ret.instr.add_objects)
            retained == SelectSeq(ret.scene.objects,
                                  LAMBDA o : o.id \notin ret.instr.remove_object_ids)
        IN  /\ Len(ret.out.objects) = N - k + m
            /\ \A i \in 1..Len(retained) :
                   /\ i <= Len(ret.out.objects)
                   /\ ret.out.objects[i].id = retained[i].id
                   /\ ret.out.objects[i].name = retained[i].name
            /\ \A j \in 1..m :
                   /\ N - k + j <= Len(ret.out.objects)
                   /\ ret.out.objects[N - k + j].name = ret.instr.add_objects[j].name
                   /\ ret.out.objects[N - k + j].type = ret.instr.add_objects[j].type

C16_Witness ==
    /\ ret.op = "modify"
    /\ Len(ret.scene.objects) = 3
    /\ ret.instr.remove_object_ids = {11}
    /\ ret.scene.objects[2].id = 11
    /\ Len(ret.instr.add_objects) = 2
    /\ Len(ret.out.objects) = 4
    /\ ret.out.objects[3].name = "moon"

\* C17: the object ids of the scene an instruction gives are pairwise
\* distinct, the ids of the input being so, whether the added objects come
\* with an id or without.
C17_ObjectIdsStayDistinct ==
    ret.op = "modify" =>
        \A i, j \in 1..Len(ret.out.objects) :
            ret.out.objects[i].id = ret.out.objects[j].id => i = j

\* C18 as claimed: every field a change names is updated, name included.
C18_EveryNamedFieldIsUpdated ==
    (ret.op = "modify" /\ ret.instr.add_objects = << >>
        /\ ret.instr.remove_object_ids = {}) =>
        \A i \in 1..Len(ret.scene.objects) :
            \A c \in ItemsOf(ret.instr.object_changes, ret.scene.objects[i].id, "name") :
                /\ i <= Len(ret.out.objects)
                /\ ret.out.objects[i].name = c.val

\* C18 as amended: a change updates the fields it names among position,
\* rotation, scale, material and properties: material (old and new value are
\* dicts) is merged key by key, the keys the change does not name keeping
\* their values; position is replaced; any other field a change names (name,
\* type) is left as it was; a change for an id no object has leaves every
\* object as it was.
C18_ChangeableFieldsAreUpdated ==
    (ret.op = "modify" /\ ret.instr.add_objects = << >>
        /\ ret.instr.remove_object_ids = {}) =>
        /\ Len(ret.out.objects) = Len(ret.scene.objects)
        /\ \A i \in 1..Len(ret.scene.objects) :
               LET old == ret.scene.objects[i]
                   new == ret.out.objects[i]
                   mats == ItemsOf(ret.instr.object_changes, old.id, "material")
                   poss == ItemsOf(ret.instr.object_changes, old.id, "position")
               IN  /\ new.id = old.id /\ new.name = old.name /\ new.type = old.type
                   /\ \A c \in mats :
                          /\ new.color = IF c.val.color # "none" THEN c.val.color
                                          ELSE old.color
                          /\ new.roughness = IF c.val.roughness # "none"
                                              THEN c.val.roughness ELSE old.roughness
                   /\ mats = {} => new.color = old.color /\ new.roughness = old.roughness
                   /\ \A c \in poss : new.position = c.val
                   /\ poss = {} => new.position = old.position

C18_Witness ==
    /\ ret.op = "modify"
    /\ ret.instr.object_changes = <<Change(11, "material", Mat("none", "smooth"))>>
    /\ Len(ret.scene.objects) = 2
    /\ ret.scene.objects[2].id = 11
    /\ ret.out.objects[2].color = "red"
    /\ ret.out.objects[2].roughness = "smooth"

\* C19: generate_script_with_modifications gives the empty script when the
\* thread has no loadable current scene; generate_blender_script then asks
\* the script generator, and the state it returns with status
\* script_generated never holds an empty script.
C19_NoSceneFallsBackToGenerator ==
    ret.op = "generate" =>
        /\ ~Truthy(CurrentScene(ret.thread)) =>
              /\ generate_script_with_modifications(thread_scenes, scene_files, uuid_next,
                                                    ret.thread, ret.instr) = << >>
              /\ ret.via = "generator"
        /\ ret.result \in {"script_generated", "error"}
        /\ ret.result = "script_generated" => ret.script # << >>
        /\ ret.result = "error" => ret.via = "generator"

C19_Witness ==
    /\ ret.op = "generate"
    /\ ~Truthy(CurrentScene(ret.thread))
    /\ thread_scenes[ret.thread].currentSceneId # NoId
    /\ ret.via = "generator"
    /\ ret.result = "script_generated"
    /\ ret.script # << >>

\* the thread mapping of the instance other than `inst`
MappingOfOther(inst) == IF inst = "main" THEN peer_scenes ELSE thread_scenes

\* C20: after an instance recorded an extraction for a thread (scene record
\* and thread mapping both written), get_current_scene_for_thread on the
\* other instance on the same storage directory returns the new scene.
C20_OtherInstanceSeesExtraction ==
    (ret.op = "extract" /\ ret.write = "ok" /\ ret.result = "ok") =>
        get_current_scene_for_thread(MappingOfOther(ret.via), scene_files,
                                     ret.thread).id = ret.scene.id

\* C22: for every prompt that names a colour of the table and every object,
\* cameras and lights apart, that the prompt mentions by name or type, the
\* fallback's object_changes has a material change of that object to the
\* colour.
C22_ColourWordRecoloursMentioned ==
    (ret.op = "fallback" /\ ColorValue(ret.prompt) # "none") =>
        \A i \in 1..Len(ret.scene.objects) :
            LET o == ret.scene.objects[i]
            IN  (o.type \notin {"camera", "light"} /\ Mentioned(ret.prompt, o)) =>
                    \E c \in ItemsOf(ret.instr.object_changes, o.id, "material") :
                        c.val.color = ColorValue(ret.prompt)

\* what the parser gives for an object of the input, default-filled
Parsed(o) ==
    [o EXCEPT !.id = NoId,
              !.size = IF o.size = "none" THEN DefaultSize(o.type) ELSE o.size]

\* C23: parsing the script synthesized from a scene state gives, ids apart,
\* the geometry objects of that scene state with their optional fields
\* default-filled.
C23_ParseOfSynthesizedIsInput ==
    ret.op = "synthesize" =>
        LET p == parse(ret.script, 0)
            geometry == Geometry(ret.scene.objects)
        IN  /\ ~p.raised
            /\ Len(p.scene.objects) = Len(geometry)
            /\ \A i \in 1..Len(geometry) :
                   [p.scene.objects[i] EXCEPT !.id = NoId] = Parsed(geometry[i])

\* the creation calls before line i of a script
CallsBefore(script, i) == {j \in 1..(i - 1) : script[j].k = "primitive_add"}

\* C29: the object extracted for a variable assigned from
\* bpy.context.active_object has the type, the size or radius and the
\* location of the nearest creation call before the assignment, whatever the
\* types of the calls before it; without a creation call before the
\* assignment no object is extracted for the variable.
C29_NearestPrimitiveDecides ==
    ret.op = "extract_objects" =>
        \A i \in 1..Len(ret.script) :
            ret.script[i].k = "active_object" =>
                LET calls == CallsBefore(ret.script, i)
                    found == {n \in 1..Len(ret.out.objects) :
                                 ret.out.objects[n].name = ret.script[i].a}
                IN  IF calls = {} THEN found = {}
                    ELSE LET call == ret.script[CHOOSE j \in calls :
                                                   \A m \in calls : m <= j]
                         IN  \E n \in found :
                                 /\ ret.out.objects[n].type = call.a
                                 /\ ret.out.objects[n].size =
                                        IF call.size # "none" THEN call.size
                                        ELSE DefaultSize(call.a)
                                 /\ ret.out.objects[n].position =
                                        IF call.location = << >> THEN 0
                                        ELSE call.location[1]

Nodes == {"analyze_prompt", "analyze_modification", "generate_script", "render_animation"}

LastNode == IF obs.nodes = << >> THEN "" ELSE obs.nodes[Len(obs.nodes)]

\* C24: once a node has set error no node runs in the turn any more (the
\* node that set it is the last one run, script generation does not run
\* after a failed analysis nor the renderer after a failed script
\* generation), and the error the turn has is the first one set.
C24_ErrorIsAbsorbing ==
    st.error # "" =>
        /\ pc = "end"
        /\ LastNode = obs.ended_by
        /\ st.error = obs.first_error
        /\ st.generation_status = "error"
        /\ obs.ended_by \in {"analyze_prompt", "analyze_modification"} =>
              Occurrences(obs.nodes, "generate_script") = 0
        /\ obs.ended_by \in {"analyze_prompt", "analyze_modification", "generate_script"} =>
              Occurrences(obs.nodes, "render_animation") = 0 /\ ~obs.posted

C24_Witness ==
    /\ st.error = "Script generation error"
    /\ obs.nodes = <<"analyze_prompt", "generate_script">>
    /\ pc = "end"

\* C25: in every turn each of the four nodes runs at most once, the node to
\* run next has not run yet, the router's result after every node is one of
\* the node's declared edges, and a turn that has ended has status completed
\* or error.  A node's step is guarded by pc alone (its external call returns
\* or raises), so a turn is over after at most four steps: termination is the
\* bound on the steps, no node being scheduled a second time.
C25_EachNodeRunsAtMostOnce ==
    /\ \A node \in Nodes : Occurrences(obs.nodes, node) <= 1
    /\ pc \in Nodes => Occurrences(obs.nodes, pc) = 0
    /\ pc \in Nodes \cup {"idle", "end"}
    /\ obs.nodes # << >> => NextNode(LastNode, st) = pc
    /\ pc = "end" => st.generation_status \in {"completed", "error"}

C25_Witness ==
    /\ pc = "end"
    /\ obs.nodes = <<"analyze_prompt", "analyze_modification", "generate_script",
                     "render_animation">>
    /\ st.generation_status = "completed"

\* the store as the turn in progress found it
StoreUnchanged ==
    /\ thread_scenes = obs.start_store.thread_scenes
    /\ scene_files = obs.start_store.scene_files
    /\ thread_file = obs.start_store.thread_file

\* C26: during a turn, and after it when it ended in error, the thread
\* mappings (pointer and history of every thread, in memory and in the
\* mapping file) and every scene file are as they were when the turn
\* started, on the fresh and on the modification path.
C26_ErrorTurnLeavesStore ==
    /\ pc \in Nodes => StoreUnchanged
    /\ (pc = "end" /\ st.generation_status = "error") => StoreUnchanged

C26_Witness ==
    /\ pc = "end"
    /\ st.generation_status = "error"
    /\ obs.had_scene
    /\ obs.synthesizer_calls = 1
    /\ obs.response = "no_url"
    /\ StoreUnchanged

\* C27: from the start of a turn on, after every node, the status is error
\* exactly when the error field is not empty, and a completed status comes
\* with a signed_url and an empty error field.
C27_ErrorStatusIffErrorField ==
    pc # "idle" =>
        /\ st.generation_status = "error" <=> st.error # ""
        /\ st.generation_status = "completed" => (st.signed_url # "" /\ st.error = "")

C27_Witness ==
    /\ pc = "end"
    /\ st.generation_status = "completed"
    /\ st.signed_url = SignedUrl
    /\ st.error = ""
    /\ obs.response = "ok"

\* the mapping record thread_mappings.json holds for a thread
Persisted(file, t) == load_thread_scenes(file)[t]

\* C28: an extraction recorded for one thread, on either instance, whose
\* write of the mapping file succeeds leaves the mapping record
\* (currentSceneId, sceneHistory) the file holds for any other thread as it
\* was.
C28_OtherThreadKeepsMapping ==
    [][(uuid_next' # uuid_next /\ ret'.result = "ok") =>
          \A u \in Threads \ {ret'.thread} :
              Persisted(thread_file, u).known =>
                  Persisted(thread_file', u) = Persisted(thread_file, u)]_vars

\* C30: no two uploads that returned use the same blob name, whether they
\* were made one after the other in the same second or at the same time, and
\* every uploaded file is still the content of its blob.
C30_UploadsUseDistinctPaths ==
    /\ \A x, y \in uploaded : x.file # y.file => x.blob_name # y.blob_name
    /\ \A x \in uploaded : bucket[x.blob_name] = x.file

====
